---------------------------- MODULE Spec2Model ----------------------------
(***************************************************************************)
(* A model of compress_comics (src/src/main.rs): the per-file pipeline     *)
(* process_comic_file (extract -> find images -> transcode in parallel ->  *)
(* repackage) and the batch loop of main that runs one pipeline per file.  *)
(*                                                                         *)
(* File contents are abstracted to records [id, fmt, len, wlen]: id names  *)
(* the bytes, fmt says what the image decoder makes of them, len is the    *)
(* file's size on disk and wlen the size of the WebP encoding that         *)
(* encode_webp produces for them at the configured quality and height.     *)
(***************************************************************************)
EXTENDS Integers, Sequences, FiniteSets, TLC

(***************************************************************************)
(* Bounds of the model.                                                    *)
(***************************************************************************)
MaxEntries == 2      \* entries of an input zip / rar archive
MaxObjects == 2      \* XObjects of an input PDF, over all its pages
BatchFiles == 2      \* input files of a batch (SpecBatch)

(***************************************************************************)
(* Program constants.                                                      *)
(***************************************************************************)
Quality == 90        \* Args.quality default
ChannelCap == 100    \* bounded(100)
PosTempDir == 10
PosExtracted == 30
PosTranscoded == 80
PosDone == 100
ProgressSpan == 50

(***************************************************************************)
(* Paths.  A path below a base directory is [dir, stem, ext]: the          *)
(* directory components, the file stem and the extension ("" = none).      *)
(* A zip entry name additionally records a trailing slash ("d/").          *)
(***************************************************************************)
P(dir, stem, ext) == [dir |-> dir, stem |-> stem, ext |-> ext]
ZN(dir, stem, ext, slash) == [dir |-> dir, stem |-> stem, ext |-> ext, slash |-> slash]

\* temp_dir.join(file.name()) seen as a path below temp_dir
JoinName(n) == P(n.dir, n.stem, n.ext)
\* path.strip_prefix(temp_dir).to_string_lossy() as an entry name
RelativeName(p) == ZN(p.dir, p.stem, p.ext, FALSE)
\* the directory path (a sequence of components) a path names when it is a directory
AsDir(p) == Append(p.dir, IF p.ext = "" THEN p.stem ELSE p.stem \o "." \o p.ext)
\* every non-empty prefix of a directory path
DirPrefixes(d) == {SubSeq(d, 1, k) : k \in 1..Len(d)}

\* str::to_lowercase on the extensions of the model
ToLowercase(s) ==
    CASE s = "PNG" -> "png"
      [] s = "JPG" -> "jpg"
      [] s = "CBZ" -> "cbz"
      [] s = "CBR" -> "cbr"
      [] s = "PDF" -> "pdf"
      [] OTHER -> s

\* Path::with_extension
WithExtension(p, e) == [p EXCEPT !.ext = e]

(***************************************************************************)
(* File contents.                                                          *)
(***************************************************************************)
Bytes(id, fmt, len, wlen) == [id |-> id, fmt |-> fmt, len |-> len, wlen |-> wlen]
ImgShrinks == Bytes("A", "img", 3, 2)    \* WebP encoding is smaller
ImgEqual   == Bytes("B", "img", 2, 2)    \* WebP encoding has the same size
ImgGrows   == Bytes("C", "img", 2, 3)    \* WebP encoding is larger
Junk       == Bytes("J", "junk", 1, 0)   \* not a decodable image
Text       == Bytes("T", "junk", 1, 0)   \* a text file
EmptyFile  == Bytes("", "junk", 0, 0)    \* a file of no bytes

\* ImageReader::open(..).decode() succeeds
Decodes(b) == b.fmt \in {"img", "webp"}
\* encode_webp of the decoded and resized image
EncodeWebp(b) == Bytes(b.id, "webp", b.wlen, b.wlen)
\* DynamicImage::save as PNG of the raster built from a PDF stream's pixels
SavePng(b) == Bytes(b.id, "img", b.len, b.wlen)

(***************************************************************************)
(* A directory tree: the TempDir of one pipeline.                          *)
(*   exists : the directory is present on disk                             *)
(*   files  : function from paths to contents (the regular files)          *)
(*   dirs   : the sub-directories, as component sequences                  *)
(***************************************************************************)
NoFiles == [p \in {} |-> Junk]
EmptyTree == [exists |-> TRUE, files |-> NoFiles, dirs |-> {}]
AbsentTree == [exists |-> FALSE, files |-> NoFiles, dirs |-> {}]

PutFile(files, p, b) == [q \in (DOMAIN files) \cup {p} |-> IF q = p THEN b ELSE files[q]]
DelFile(files, p) == [q \in (DOMAIN files) \ {p} |-> files[q]]

\* some file of the tree is named like the directory path d
FileAt(t, d) == \E q \in DOMAIN t.files : AsDir(q) = d

\* write_all(b) from offset 0 into a file that holds `old`: the bytes of b, then
\* what of `old` lies beyond them
WriteOver(old, b) ==
    IF b.len >= old.len THEN b ELSE Bytes(b.id \o old.id, "blend", old.len, 0)

\* fs::create_dir_all(parent): fails when a component is a regular file
CreateDirAllOk(t, d) == \A pre \in DirPrefixes(d) : ~FileAt(t, pre)
CreateDirAll(t, d) == [t EXCEPT !.dirs = @ \cup DirPrefixes(d)]

\* File::create(path) succeeds: no trailing slash (EISDIR) and no directory of that name
FileCreateOk(t, n) == ~n.slash /\ AsDir(JoinName(n)) \notin t.dirs


(***************************************************************************)
(* Containers.  An input file's bytes are described by what each parser    *)
(* makes of them:                                                          *)
(*   zip : [valid, entries]   zip::ZipArchive::new succeeds, and the       *)
(*                            entries by index                             *)
(*   rar : [opens, entries]   unrar opens the file, and its entries        *)
(*   pdf : [loads, pages]     lopdf loads the file, and the XObjects of    *)
(*                            its pages in iteration order                 *)
(* An entry is [name, bytes, readable, copied]; readable = FALSE is an     *)
(* entry the parser fails on (by_index, or the RAR header), copied is what *)
(* reading the entry's data delivers: the bytes, or less when the data is  *)
(* corrupt and the read ends in an error.                                  *)
(***************************************************************************)
Entry(n, b, r) == [name |-> n, bytes |-> b, readable |-> r, copied |-> b]
\* an entry the parser returns and whose data fails to read after `part`
CorruptEntry(n, b, part) == [name |-> n, bytes |-> b, readable |-> TRUE, copied |-> part]
\* std::io::copy(&mut file, &mut output_file) returns Ok
CopyOk(e) == e.copied = e.bytes
NoZip == [valid |-> FALSE, entries |-> <<>>]
NoRar == [opens |-> FALSE, entries |-> <<>>]
NoPdf == [loads |-> FALSE, pages |-> <<>>]

Result(ok, t) == [ok |-> ok, tree |-> t]

\* One iteration of the loop of extract_zip_archive, then the rest of the loop.
RECURSIVE ExtractZipFrom(_, _, _)
ExtractZipFrom(entries, i, t) ==
    IF i > Len(entries) THEN Result(TRUE, t)
    ELSE LET e == entries[i]
             parent == e.name.dir
         IN  IF ~e.readable THEN Result(FALSE, t)                    \* archive.by_index(i)?
             ELSE IF ~CreateDirAllOk(t, parent) THEN Result(FALSE, t) \* fs::create_dir_all(parent)?
             ELSE LET t1 == CreateDirAll(t, parent)
                  IN  IF ~FileCreateOk(t1, e.name) THEN Result(FALSE, t1)   \* File::create(&file_path)?
                      ELSE LET t2 == [t1 EXCEPT !.files = PutFile(@, JoinName(e.name), e.copied)]
                           IN  IF ~CopyOk(e) THEN Result(FALSE, t2)         \* std::io::copy(..)?
                               ELSE ExtractZipFrom(entries, i + 1, t2)

extract_zip_archive(zip, t) ==
    IF ~zip.valid THEN Result(FALSE, t)
    ELSE ExtractZipFrom(zip.entries, 1, t)

\* extract_with_base of one RAR entry: a directory entry makes the directory,
\* a file entry makes its parent directories and the file.
RarExtractEntry(t, e) ==
    IF e.name.slash THEN CreateDirAll(t, AsDir(JoinName(e.name)))
    ELSE [CreateDirAll(t, e.name.dir) EXCEPT !.files = PutFile(@, JoinName(e.name), e.bytes)]

RECURSIVE ExtractRarFrom(_, _, _)
ExtractRarFrom(entries, i, t) ==
    IF i > Len(entries) THEN Result(TRUE, t)                         \* Ok(None) => break
    ELSE IF ~entries[i].readable THEN Result(FALSE, t)               \* header or entry error
    ELSE ExtractRarFrom(entries, i + 1, RarExtractEntry(t, entries[i]))

extract_rar_archive(rar, t) ==
    IF ~rar.opens THEN Result(FALSE, t)
    ELSE ExtractRarFrom(rar.entries, 1, t)

(***************************************************************************)
(* PDF extraction.  An XObject is [subtype, filter, cs, bpc, data, bytes]: *)
(* filter "" is "no /Filter", data says whether the stream content         *)
(* inflates ("corrupt" does not) and has the size width*height*channels    *)
(* ("short" has not), bytes is the image the stream holds.                 *)
(***************************************************************************)
XObj(st, f, cs, bpc, data, b) ==
    [subtype |-> st, filter |-> f, cs |-> cs, bpc |-> bpc, data |-> data, bytes |-> b]

Digits == <<"0", "1", "2", "3", "4", "5", "6", "7", "8", "9">>
Digit(d) == Digits[d + 1]
\* format!("{:04}", n) for n < 10000
Pad4(n) == Digit((n \div 1000) % 10) \o Digit((n \div 100) % 10)
             \o Digit((n \div 10) % 10) \o Digit(n % 10)
PageName(n, ext) == P(<<>>, "page_" \o Pad4(n), ext)

\* the match on (color_space, bits_per_component) of extract_flate_decoded_image
extract_flate_decoded_image(o, t, n) ==
    IF o.data = "corrupt" THEN Result(FALSE, t)                      \* read_to_end fails
    ELSE IF o.bpc = 8 /\ o.cs \in {"DeviceRGB", "DeviceGray"} THEN
        IF o.data = "short" THEN Result(FALSE, t)                    \* from_raw gives None
        ELSE Result(TRUE, [t EXCEPT !.files = PutFile(@, PageName(n, "png"), SavePng(o.bytes))])
    ELSE IF o.bpc = 8 /\ o.cs = "DeviceCMYK" THEN
        IF o.data = "short" THEN Result(FALSE, t)                    \* CMYK data size mismatch
        ELSE Result(TRUE, [t EXCEPT !.files = PutFile(@, PageName(n, "png"), SavePng(o.bytes))])
    ELSE Result(TRUE, t)                                             \* skipped

\* extract_raw_image: no CMYK arm
extract_raw_image(o, t, n) ==
    IF o.bpc = 8 /\ o.cs \in {"DeviceRGB", "DeviceGray"} THEN
        IF o.data = "short" THEN Result(FALSE, t)
        ELSE Result(TRUE, [t EXCEPT !.files = PutFile(@, PageName(n, "png"), SavePng(o.bytes))])
    ELSE Result(TRUE, t)                                             \* skipped

extract_image_from_stream(o, t, n) ==
    CASE o.filter = "DCTDecode" ->
            Result(TRUE, [t EXCEPT !.files = PutFile(@, PageName(n, "jpg"), o.bytes)])
      [] o.filter = "FlateDecode" -> extract_flate_decoded_image(o, t, n)
      [] o.filter = "CCITTFaxDecode" -> Result(TRUE, t)
      [] o.filter = "" -> extract_raw_image(o, t, n)
      [] OTHER -> Result(TRUE, t)

\* State of the extraction loops: [ok, tree, counter].
PdfState(ok, t, c) == [ok |-> ok, tree |-> t, counter |-> c]

\* (a variant of the increment below that leaves the counter as it is)
SameImageNumber(c) == c
\* *image_counter += 1
NextImageNumber(c) == c + 1

\* extract_images_from_page from XObject i of the page on
RECURSIVE ExtractImagesFrom(_, _, _)
ExtractImagesFrom(page, i, st) ==
    IF i > Len(page) THEN st
    ELSE IF page[i].subtype # "Image" THEN ExtractImagesFrom(page, i + 1, st)
    ELSE LET r == extract_image_from_stream(page[i], st.tree, st.counter)
         IN  IF ~r.ok THEN PdfState(FALSE, r.tree, st.counter)
             ELSE ExtractImagesFrom(page, i + 1,
                      PdfState(TRUE, r.tree, NextImageNumber(st.counter)))

extract_images_from_page(page, st) == ExtractImagesFrom(page, 1, st)

RECURSIVE ExtractPagesFrom(_, _, _)
ExtractPagesFrom(pages, k, st) ==
    IF k > Len(pages) THEN st
    ELSE LET s1 == extract_images_from_page(pages[k], st)
         IN  IF ~s1.ok THEN s1 ELSE ExtractPagesFrom(pages, k + 1, s1)

\* the final test of extract_pdf_archive
NoImagesFound(counter) == counter = 1

extract_pdf_archive(pdf, t) ==
    IF ~pdf.loads THEN Result(FALSE, t)
    ELSE LET st == ExtractPagesFrom(pdf.pages, 1, PdfState(TRUE, t, 1))
         IN  IF ~st.ok THEN Result(FALSE, st.tree)
             ELSE IF NoImagesFound(st.counter) THEN Result(FALSE, st.tree)
             ELSE Result(TRUE, st.tree)

(***************************************************************************)
(* detect_comic_file, extract_comic                                        *)
(***************************************************************************)
detect_comic_file(path) ==
    CASE ToLowercase(path.ext) = "cbz" -> "Cbz"
      [] ToLowercase(path.ext) = "cbr" -> "Cbr"
      [] ToLowercase(path.ext) = "pdf" -> "Pdf"
      [] OTHER -> "Unsupported"

extract_comic(cf, t) ==
    CASE cf.file_type = "Cbz" -> extract_zip_archive(cf.zip, t)
      [] cf.file_type = "Cbr" ->
            LET r == extract_rar_archive(cf.rar, t)
            IN  IF r.ok THEN r ELSE extract_zip_archive(cf.zip, r.tree)
      [] cf.file_type = "Pdf" -> extract_pdf_archive(cf.pdf, t)

(***************************************************************************)
(* find_image_files: the regular files of the tree with an image           *)
(* extension, sorted by path.                                              *)
(***************************************************************************)
ImageExtensions == {"jpg", "jpeg", "png", "bmp", "tiff", "tif"}
IsImagePath(p) == ToLowercase(p.ext) \in ImageExtensions

\* The path components the model uses, in the byte order in which Path's Ord
\* compares them (digits < upper case < '_' < lower case; "page_000N" falls
\* between "notes" and "pdf").
NameOrder == <<"", "001", "002", "JPG", "PNG", "a", "b", "cbr", "cbz", "d", "jpg", "notes",
              "page_0001", "page_0002", "page_0003", "page_0004", "page_0005", "page_0006",
              "page_0007", "page_0008", "page_0009", "pdf", "png", "txt", "webp">>
StrRank(s) == CHOOSE i \in 1..Len(NameOrder) : NameOrder[i] = s
\* a path as the sequence of ranks of its components
PathKey(p) == [i \in 1..Len(p.dir) |-> StrRank(p.dir[i])] \o <<StrRank(p.stem), StrRank(p.ext)>>
RECURSIVE KeyLess(_, _)
KeyLess(a, b) ==
    IF a = <<>> THEN b # <<>>
    ELSE IF b = <<>> THEN FALSE
    ELSE IF Head(a) # Head(b) THEN Head(a) < Head(b)
    ELSE KeyLess(Tail(a), Tail(b))
PathLess(p, q) == KeyLess(PathKey(p), PathKey(q))

RECURSIVE SetToSortedSeq(_)
SetToSortedSeq(S) ==
    IF S = {} THEN <<>>
    ELSE LET m == CHOOSE p \in S : \A q \in S \ {p} : PathLess(p, q)
         IN  <<m>> \o SetToSortedSeq(S \ {m})

find_image_files(t) == SetToSortedSeq({p \in DOMAIN t.files : IsImagePath(p)})


(***************************************************************************)
(* process_single_image: the size test, and the repackager.                *)
(***************************************************************************)
\* (a variant of the test below that also accepts an encoding of equal size)
SmallerOrEqualToOriginal(b) == EncodeWebp(b).len <= b.len
\* webp_bytes.len() < fs::metadata(image_path)?.len()
SmallerThanOriginal(b) == EncodeWebp(b).len < b.len

\* An output file is its bytes, kept as runs: a run is the bytes from..to of a
\* part, a part being one thing the ZipWriter writes.  The parts are
\*   "header" : the local header start_file writes for an entry (of = its name),
\*              with the CRC and the two sizes still zero;
\*   "data"   : the deflated data of an entry (of = the bytes given to write_all);
\*   "sizes"  : the CRC and sizes written into the header when the entry ends;
\*   "end"    : the central directory and the end record (of = the entries, with
\*              the offsets of their headers);
\* and Hole is the zeros a write beyond the end of a file leaves before it.
Hole == [kind |-> "hole", of |-> <<>>]
\* The length of a part in bytes, from the zip format: a local header is 30 bytes
\* and the name, a directory record 46 bytes and the name, the end record 22; the
\* CRC and sizes are 12 bytes; Deflated data of the few bytes of a model file is
\* two bytes longer than the data.
PartLen(part) ==
    LET RECURSIVE Dirs(_)
        Dirs(d) == IF d = <<>> THEN 0 ELSE Len(Head(d)) + 1 + Dirs(Tail(d))
        NameLen(n) == Dirs(n.dir) + Len(n.stem) + (IF n.ext = "" THEN 0 ELSE 1 + Len(n.ext))
        RECURSIVE Records(_)
        Records(es) ==
            IF es = <<>> THEN 0
            ELSE 46 + NameLen(RelativeName(Head(es).path)) + Records(Tail(es))
    IN  CASE part.kind = "header" -> 30 + NameLen(part.of)
          [] part.kind = "sizes"  -> 12
          [] part.kind = "data"   -> part.of.len + 2
          [] part.kind = "end"    -> Records(part.of) + 22
\* a part as a run of all its bytes
Whole(kind, of) ==
    [part |-> [kind |-> kind, of |-> of], from |-> 1,
     to |-> PartLen([kind |-> kind, of |-> of])]

\* the bytes a+1..b of a file
RECURSIVE Slice(_, _, _)
Slice(file, a, b) ==
    IF file = <<>> \/ a >= b THEN <<>>
    ELSE LET r == Head(file)
             n == r.to - r.from + 1
         IN  IF a >= n THEN Slice(Tail(file), a - n, b - n)
             ELSE LET hi == IF b < n THEN b ELSE n
                      piece == IF r.part = Hole
                               THEN [part |-> Hole, from |-> 1, to |-> hi - a]
                               ELSE [part |-> r.part, from |-> r.from + a, to |-> r.from + hi - 1]
                  IN  <<piece>> \o Slice(Tail(file), 0, b - n)
\* one file after the other; runs that continue each other become one run
Join(x, y) ==
    IF x = <<>> THEN y
    ELSE IF y = <<>> THEN x
    ELSE LET l == x[Len(x)]
             r == Head(y)
         IN  IF l.part = Hole /\ r.part = Hole
             THEN SubSeq(x, 1, Len(x) - 1) \o <<[l EXCEPT !.to = l.to + r.to]>> \o Tail(y)
             ELSE IF l.part = r.part /\ l.to + 1 = r.from
             THEN SubSeq(x, 1, Len(x) - 1) \o <<[l EXCEPT !.to = r.to]>> \o Tail(y)
             ELSE x \o y
\* a write of a run through a handle that stands at byte offset `at`: the bytes
\* behind `at` are replaced, the file grows when the write ends beyond its end,
\* and a write that starts beyond the end leaves zeros before it
WriteAt(file, at, run) ==
    IF run.to < run.from THEN file
    ELSE LET RECURSIVE FileLen(_)
             FileLen(x) ==
                 IF x = <<>> THEN 0 ELSE (Head(x).to - Head(x).from + 1) + FileLen(Tail(x))
             len == FileLen(file)
             end == at + (run.to - run.from + 1)
             before == IF at <= len THEN Slice(file, 0, at)
                       ELSE Join(file, <<[part |-> Hole, from |-> 1, to |-> at - len]>>)
         IN  Join(Join(before, <<run>>), Slice(file, end, len))

\* ZipWriter::new(file): no entry yet, the handle at the start of the file
NewWriter == [entries |-> <<>>, open |-> FALSE, sent |-> 0, at |-> 0, finished |-> FALSE]

\* the file one ZipWriter makes of the entries es, alone on its file
ArchiveOf(es) ==
    LET RECURSIVE Body(_)
        Body(k) ==
            IF k = 0 THEN <<>>
            ELSE LET e == es[k]
                     h == Whole("header", RelativeName(e.path))
                 IN  WriteAt(WriteAt(WriteAt(Body(k - 1), e.at, h),
                                     e.at + h.to, Whole("data", e.bytes)),
                             e.at + 14, Whole("sizes", e.bytes))
        last == es[Len(es)]
        end == IF es = <<>> THEN 0
               ELSE last.at + Whole("header", RelativeName(last.path)).to
                            + Whole("data", last.bytes).to
    IN  WriteAt(Body(Len(es)), end, Whole("end", es))
\* the file is a whole archive: its last bytes are a directory, and the file is
\* what a ZipWriter alone on the file makes of the entries of that directory
ArchiveComplete(file) ==
    /\ file # <<>>
    /\ file[Len(file)].part.kind = "end"
    /\ file = ArchiveOf(file[Len(file)].part.of)
\* the entries a reader of the archive finds
ArchiveEntries(file) ==
    LET es == file[Len(file)].part.of
    IN  {[name |-> RelativeName(es[k].path), bytes |-> es[k].bytes] : k \in DOMAIN es}

generate_output_path(input_path, quality) ==
    P(input_path.dir, input_path.stem \o " optimized_webp_q" \o ToString(quality), "cbr")

\* (a variant of the drop below that leaves the directory on disk)
KeepTempDir(t) == t
\* Drop of the TempDir: the directory and everything below it is removed
DropTempDir(t) == AbsentTree

\* 30 + ((current * 50) / total_images)
ProgressPercent(current, total) == PosExtracted + ((current * ProgressSpan) \div total)

\* stats_map.insert(path, file_stats)
StatsInsert(m, k, v) == [q \in (DOMAIN m) \cup {k} |-> IF q = k THEN v ELSE m[q]]

(***************************************************************************)
(* The state.  Everything but outputs, stats, stats_lock, overall and      *)
(* main_done is per input file (a function on Files).                      *)
(***************************************************************************)
VARIABLES
    comic_files,      \* main: the Vec<ComicFile>, each with its container
    pc,               \* where the closure of par_iter / process_comic_file stands
    position,         \* file_progress position
    message,          \* file_progress message: "" | "Complete" | "Failed"
    scratch,          \* the TempDir of process_comic_file
    image_files,      \* process_images: the slice of image paths
    wpc,              \* process_images: where the worker of each image stands
    channel,          \* the bounded channel: [buf, open]
    agg,              \* the aggregator thread: [at, success]
    processed_count,  \* Arc<Mutex<usize>>
    skipped_count,    \* Arc<Mutex<usize>>
    counts,           \* process_images: the locals processed, skipped
    outputs,          \* the output archives on disk, by path
    stats,            \* main: the HashMap behind the mutex
    stats_lock,       \* the files whose closure holds the mutex: {} or one file
    overall,          \* overall_progress position
    main_done,        \* main has returned (the process has exited)
    image_counter,    \* extract_pdf_archive: the local image_counter
    pdf_at,           \* extract_pdf_archive: the page and XObject the loops stand at
    zip_writer,       \* create_cbr_archive: the ZipWriter: the entries started (path, bytes,
                      \* offset), whether the last is open, the bytes of its data sent to
                      \* the file, the offset of the handle, whether finish() returned Ok
    result            \* what process_comic_file returned: "" (not yet) | "Ok" | the Err

vars == <<comic_files, pc, position, message, scratch, image_files, wpc, channel, agg,
          processed_count, skipped_count, counts, outputs, stats, stats_lock, overall,
          main_done, image_counter, pdf_at, zip_writer, result>>

Files == DOMAIN comic_files
Workers(f) == DOMAIN image_files[f]
OutputPath(f) == generate_output_path(comic_files[f].path, Quality)
NoOutputs == [q \in {} |-> <<>>]
NoStats == [q \in {} |-> [images_processed |-> 0, images_skipped |-> 0]]

ComicFile(path, zip, rar, pdf) ==
    [path |-> path, file_type |-> detect_comic_file(path), zip |-> zip, rar |-> rar, pdf |-> pdf]

SeqsUpTo(S, n) == UNION {[1..k -> S] : k \in 0..n}


(***************************************************************************)
(* The inputs the model draws from.                                        *)
(***************************************************************************)
DirBytes == Bytes("", "dir", 0, 0)
E_001png    == Entry(ZN(<<>>, "001", "png", FALSE), ImgShrinks, TRUE)
E_001pngB   == Entry(ZN(<<>>, "001", "png", FALSE), ImgEqual, TRUE)
E_d002JPG   == Entry(ZN(<<"d">>, "002", "JPG", FALSE), ImgShrinks, TRUE)
E_002jpg    == Entry(ZN(<<>>, "002", "jpg", FALSE), Junk, TRUE)
E_dir       == Entry(ZN(<<>>, "d", "", TRUE), DirBytes, TRUE)
E_notes     == Entry(ZN(<<>>, "notes", "txt", FALSE), Text, TRUE)
E_broken    == Entry(ZN(<<>>, "002", "jpg", FALSE), ImgGrows, FALSE)
E_corrupt   == CorruptEntry(ZN(<<>>, "002", "jpg", FALSE), ImgGrows, EmptyFile)

ZipEntries == {E_001png, E_001pngB, E_d002JPG, E_002jpg, E_dir, E_notes, E_broken, E_corrupt}
\* Archives of up to MaxEntries entries.  The order of two entries with different
\* names that each extract to a file of their own does not show in the TempDir,
\* so of the archives that differ only in that order the one in path order is taken.
ZipViews ==
    LET PlainEntry(e) == e.readable /\ CopyOk(e) /\ ~e.name.slash
    IN  {NoZip} \cup
        {[valid |-> TRUE, entries |-> es] : es \in
            {es \in SeqsUpTo(ZipEntries, MaxEntries) :
                \A i, j \in DOMAIN es :
                    (i < j /\ PlainEntry(es[i]) /\ PlainEntry(es[j]) /\ es[i].name # es[j].name)
                        => PathLess(JoinName(es[i].name), JoinName(es[j].name))}}

RarEntries == {E_001png, E_dir, E_broken}
RarViews == {NoRar} \cup {[opens |-> TRUE, entries |-> es] : es \in SeqsUpTo(RarEntries, MaxEntries)}
CbrZipViews == {NoZip, [valid |-> TRUE, entries |-> <<E_002jpg>>],
                [valid |-> TRUE, entries |-> <<E_d002JPG>>]}

O_jpeg      == XObj("Image", "DCTDecode", "DeviceRGB", 8, "ok", ImgShrinks)
O_flateRgb  == XObj("Image", "FlateDecode", "DeviceRGB", 8, "ok", ImgGrows)
O_flateCmyk == XObj("Image", "FlateDecode", "DeviceCMYK", 8, "short", ImgShrinks)
O_fax       == XObj("Image", "CCITTFaxDecode", "DeviceGray", 1, "ok", ImgShrinks)
O_rawCmyk   == XObj("Image", "", "DeviceCMYK", 8, "ok", ImgShrinks)
O_form      == XObj("Form", "FlateDecode", "DeviceRGB", 8, "ok", Junk)
XObjects == {O_jpeg, O_flateRgb, O_flateCmyk, O_fax, O_rawCmyk, O_form}

\* a document of two pages: the XObjects os, the first k of them on page 1
PdfDoc(os, k) == [loads |-> TRUE, pages |-> <<SubSeq(os, 1, k), SubSeq(os, k + 1, Len(os))>>]
\* documents with one XObject on the first page (if any) and the rest on the second
PdfViews == {NoPdf} \cup {PdfDoc(os, IF os = <<>> THEN 0 ELSE 1) : os \in SeqsUpTo(XObjects, MaxObjects)}

CbzInputs == {ComicFile(P(<<>>, "a", "cbz"), z, NoRar, NoPdf) : z \in ZipViews}
CbrInputs == {ComicFile(P(<<>>, "a", "cbr"), z, r, NoPdf) : <<z, r>> \in CbrZipViews \X RarViews}
PdfInputs == {ComicFile(P(<<>>, "a", "pdf"), NoZip, NoRar, d) : d \in PdfViews}
PipelineInputs == CbzInputs \cup CbrInputs \cup PdfInputs

(***************************************************************************)
(* Init: main has found comic_files and is about to enter par_iter.        *)
(***************************************************************************)
InitFor(cfs) ==
    /\ comic_files = cfs
    /\ pc = [f \in DOMAIN cfs |-> "begin"]
    /\ position = [f \in DOMAIN cfs |-> 0]
    /\ message = [f \in DOMAIN cfs |-> ""]
    /\ scratch = [f \in DOMAIN cfs |-> AbsentTree]
    /\ image_files = [f \in DOMAIN cfs |-> <<>>]
    /\ wpc = [f \in DOMAIN cfs |-> <<>>]
    /\ channel = [f \in DOMAIN cfs |-> [buf |-> <<>>, open |-> FALSE]]
    /\ agg = [f \in DOMAIN cfs |-> [at |-> "unborn", success |-> FALSE]]
    /\ processed_count = [f \in DOMAIN cfs |-> 0]
    /\ skipped_count = [f \in DOMAIN cfs |-> 0]
    /\ counts = [f \in DOMAIN cfs |-> [processed |-> 0, skipped |-> 0]]
    /\ outputs = NoOutputs
    /\ stats = NoStats
    /\ stats_lock = {}
    /\ overall = 0
    /\ main_done = FALSE
    /\ image_counter = [f \in DOMAIN cfs |-> 1]
    /\ pdf_at = [f \in DOMAIN cfs |-> [page |-> 1, obj |-> 1]]
    /\ zip_writer = [f \in DOMAIN cfs |-> NewWriter]
    /\ result = [f \in DOMAIN cfs |-> ""]

\* one input file, any container of the model
Init == \E cf \in PipelineInputs : InitFor(<<cf>>)

(***************************************************************************)
(* process_comic_file for input f                                          *)
(***************************************************************************)
\* fs::metadata, TempDir::new, set_position(10)
P_Begin(f) ==
    /\ pc[f] = "begin"
    /\ \E made \in BOOLEAN :
          IF made
          THEN /\ scratch' = [scratch EXCEPT ![f] = EmptyTree]
               /\ position' = [position EXCEPT ![f] = PosTempDir]
               /\ pc' = [pc EXCEPT ![f] = "extract"]
          ELSE /\ pc' = [pc EXCEPT ![f] = "err"]
               /\ UNCHANGED <<scratch, position>>
    /\ result' = [result EXCEPT ![f] = IF pc'[f] = "err" THEN "Err: begin" ELSE @]
    /\ UNCHANGED <<zip_writer, image_counter, pdf_at, comic_files, message, image_files, wpc,
                   channel, agg, processed_count, skipped_count, counts, outputs, stats,
                   stats_lock, overall, main_done>>

\* extract_comic(..)?; set_position(30).  On Err the function returns and temp_dir drops.
P_Extract(f) ==
    /\ pc[f] = "extract"
    /\ LET r == extract_comic(comic_files[f], scratch[f])
       IN  IF r.ok
           THEN /\ scratch' = [scratch EXCEPT ![f] = r.tree]
                /\ position' = [position EXCEPT ![f] = PosExtracted]
                /\ pc' = [pc EXCEPT ![f] = "images"]
           ELSE /\ scratch' = [scratch EXCEPT ![f] = DropTempDir(r.tree)]
                /\ pc' = [pc EXCEPT ![f] = "err"]
                /\ UNCHANGED position
    /\ result' = [result EXCEPT ![f] = IF pc'[f] = "err" THEN "Err: extract_comic" ELSE @]
    /\ UNCHANGED <<zip_writer, image_counter, pdf_at, comic_files, message, image_files, wpc,
                   channel, agg, processed_count, skipped_count, counts, outputs, stats,
                   stats_lock, overall, main_done>>

\* find_image_files; process_images up to the start of par_iter: the channel,
\* the counters, and the spawned aggregator thread
P_StartImages(f) ==
    /\ pc[f] = "images"
    /\ LET imgs == find_image_files(scratch[f])
       IN  /\ image_files' = [image_files EXCEPT ![f] = imgs]
           /\ wpc' = [wpc EXCEPT ![f] = [i \in DOMAIN imgs |-> "start"]]
    /\ channel' = [channel EXCEPT ![f] = [buf |-> <<>>, open |-> TRUE]]
    /\ agg' = [agg EXCEPT ![f] = [at |-> "recv", success |-> FALSE]]
    /\ pc' = [pc EXCEPT ![f] = "workers"]
    /\ UNCHANGED <<zip_writer, result, image_counter, pdf_at, comic_files, position, message,
                   scratch, processed_count, skipped_count, counts, outputs, stats,
                   stats_lock, overall, main_done>>


(***************************************************************************)
(* process_images: the rayon workers, one per image (process_single_image  *)
(* then sender.send)                                                       *)
(***************************************************************************)
ImagePath(f, i) == image_files[f][i]
WebpPath(f, i) == WithExtension(ImagePath(f, i), "webp")
SetWorker(f, i, at) == wpc' = [wpc EXCEPT ![f][i] = at]

\* decode, resize, encode_webp, and the size test
W_Start(f, i) ==
    /\ pc[f] = "workers" /\ wpc[f][i] = "start"
    /\ LET b == scratch[f].files[ImagePath(f, i)]
       IN  IF Decodes(b) /\ SmallerThanOriginal(b)
           THEN SetWorker(f, i, "write")
           ELSE SetWorker(f, i, "send_err")
    /\ UNCHANGED <<zip_writer, result, image_counter, pdf_at, comic_files, pc, position, message,
                   scratch, image_files, channel, agg, processed_count, skipped_count,
                   counts, outputs, stats, stats_lock, overall, main_done>>

\* fs::write(&webp_path, webp_bytes)?, first half: File::create(path) makes the
\* file or truncates the one that is there
W_Open(f, i) ==
    /\ pc[f] = "workers" /\ wpc[f][i] = "write"
    /\ \E opened \in BOOLEAN :
          IF opened
          THEN /\ scratch' = [scratch EXCEPT ![f].files = PutFile(@, WebpPath(f, i), EmptyFile)]
               /\ SetWorker(f, i, "write_all")
          ELSE /\ SetWorker(f, i, "send_err")
               /\ UNCHANGED scratch
    /\ UNCHANGED <<zip_writer, result, image_counter, pdf_at, comic_files, pc, position, message,
                   image_files, channel, agg, processed_count, skipped_count, counts,
                   outputs, stats, stats_lock, overall, main_done>>

\* fs::write, second half: write_all(webp_bytes) through the worker's own handle,
\* from offset 0, over whatever the file holds by now
W_Write(f, i) ==
    /\ pc[f] = "workers" /\ wpc[f][i] = "write_all"
    /\ \E written \in BOOLEAN :
          IF written
          THEN /\ scratch' = [scratch EXCEPT ![f].files =
                      PutFile(@, WebpPath(f, i),
                              WriteOver(@[WebpPath(f, i)], EncodeWebp(@[ImagePath(f, i)])))]
               /\ SetWorker(f, i, "remove")
          ELSE /\ SetWorker(f, i, "send_err")
               /\ UNCHANGED scratch
    /\ UNCHANGED <<zip_writer, result, image_counter, pdf_at, comic_files, pc, position, message,
                   image_files, channel, agg, processed_count, skipped_count, counts,
                   outputs, stats, stats_lock, overall, main_done>>

\* fs::remove_file(image_path)?; Ok(())
W_Remove(f, i) ==
    /\ pc[f] = "workers" /\ wpc[f][i] = "remove"
    /\ \E removed \in BOOLEAN :
          IF removed
          THEN /\ scratch' = [scratch EXCEPT ![f].files = DelFile(@, ImagePath(f, i))]
               /\ SetWorker(f, i, "send_ok")
          ELSE /\ SetWorker(f, i, "send_err")
               /\ UNCHANGED scratch
    /\ UNCHANGED <<zip_writer, result, image_counter, pdf_at, comic_files, pc, position, message,
                   image_files, channel, agg, processed_count, skipped_count, counts,
                   outputs, stats, stats_lock, overall, main_done>>

\* sender.send((image_path.clone(), result.is_ok())).unwrap()
W_Send(f, i) ==
    /\ pc[f] = "workers" /\ wpc[f][i] \in {"send_ok", "send_err"}
    /\ Len(channel[f].buf) < ChannelCap
    /\ channel' = [channel EXCEPT ![f].buf = Append(@, <<ImagePath(f, i), wpc[f][i] = "send_ok">>)]
    /\ SetWorker(f, i, "done")
    /\ UNCHANGED <<zip_writer, result, image_counter, pdf_at, comic_files, pc, position, message,
                   scratch, image_files, agg, processed_count, skipped_count, counts,
                   outputs, stats, stats_lock, overall, main_done>>

(***************************************************************************)
(* process_images: the aggregator thread.  It is detached: it runs until   *)
(* the channel is closed and drained, or until the process exits.          *)
(***************************************************************************)
\* for (_, success) in receiver: the next message
A_Recv(f) ==
    /\ ~main_done /\ agg[f].at = "recv" /\ channel[f].buf # <<>>
    /\ agg' = [agg EXCEPT ![f] = [at |-> "count", success |-> Head(channel[f].buf)[2]]]
    /\ channel' = [channel EXCEPT ![f].buf = Tail(@)]
    /\ UNCHANGED <<zip_writer, result, image_counter, pdf_at, comic_files, pc, position, message,
                   scratch, image_files, wpc, processed_count, skipped_count, counts,
                   outputs, stats, stats_lock, overall, main_done>>

\* the receiver's iterator ends: every sender is dropped and the channel is empty
A_Exit(f) ==
    /\ ~main_done /\ agg[f].at = "recv" /\ channel[f].buf = <<>> /\ ~channel[f].open
    /\ agg' = [agg EXCEPT ![f].at = "exited"]
    /\ UNCHANGED <<zip_writer, result, image_counter, pdf_at, comic_files, pc, position, message,
                   scratch, image_files, wpc, channel, processed_count, skipped_count,
                   counts, outputs, stats, stats_lock, overall, main_done>>

\* *processed_clone.lock().unwrap() += 1, or the same for skipped_clone
A_Count(f) ==
    /\ ~main_done /\ agg[f].at = "count"
    /\ IF agg[f].success
       THEN /\ processed_count' = [processed_count EXCEPT ![f] = @ + 1]
            /\ UNCHANGED skipped_count
       ELSE /\ skipped_count' = [skipped_count EXCEPT ![f] = @ + 1]
            /\ UNCHANGED processed_count
    /\ agg' = [agg EXCEPT ![f] = [at |-> "publish", success |-> FALSE]]
    /\ UNCHANGED <<zip_writer, result, image_counter, pdf_at, comic_files, pc, position, message,
                   scratch, image_files, wpc, channel, counts, outputs, stats, stats_lock,
                   overall, main_done>>

\* current = processed + skipped; progress_clone.set_position(30 + current*50/total)
A_Publish(f) ==
    /\ ~main_done /\ agg[f].at = "publish"
    /\ position' = [position EXCEPT ![f] =
           ProgressPercent(processed_count[f] + skipped_count[f], Len(image_files[f]))]
    /\ agg' = [agg EXCEPT ![f].at = "recv"]
    /\ UNCHANGED <<zip_writer, result, image_counter, pdf_at, comic_files, pc, message, scratch,
                   image_files, wpc, channel, processed_count, skipped_count, counts,
                   outputs, stats, stats_lock, overall, main_done>>

(***************************************************************************)
(* process_images after par_iter, and the rest of process_comic_file       *)
(***************************************************************************)
\* par_iter().for_each has returned; drop(sender); thread::sleep(100ms)
P_Join(f) ==
    /\ pc[f] = "workers" /\ \A i \in Workers(f) : wpc[f][i] = "done"
    /\ channel' = [channel EXCEPT ![f].open = FALSE]
    /\ pc' = [pc EXCEPT ![f] = "read_processed"]
    /\ UNCHANGED <<zip_writer, result, image_counter, pdf_at, comic_files, position, message,
                   scratch, image_files, wpc, agg, processed_count, skipped_count, counts,
                   outputs, stats, stats_lock, overall, main_done>>

\* let processed = *processed_count.lock().unwrap()
P_ReadProcessed(f) ==
    /\ pc[f] = "read_processed"
    /\ counts' = [counts EXCEPT ![f].processed = processed_count[f]]
    /\ pc' = [pc EXCEPT ![f] = "read_skipped"]
    /\ UNCHANGED <<zip_writer, result, image_counter, pdf_at, comic_files, position, message,
                   scratch, image_files, wpc, channel, agg, processed_count, skipped_count,
                   outputs, stats, stats_lock, overall, main_done>>

\* let skipped = *skipped_count.lock().unwrap(); Ok((processed, skipped))
P_ReadSkipped(f) ==
    /\ pc[f] = "read_skipped"
    /\ counts' = [counts EXCEPT ![f].skipped = skipped_count[f]]
    /\ pc' = [pc EXCEPT ![f] = "returned_counts"]
    /\ UNCHANGED <<zip_writer, result, image_counter, pdf_at, comic_files, position, message,
                   scratch, image_files, wpc, channel, agg, processed_count, skipped_count,
                   outputs, stats, stats_lock, overall, main_done>>

\* progress.set_position(80)
P_Transcoded(f) ==
    /\ pc[f] = "returned_counts"
    /\ position' = [position EXCEPT ![f] = PosTranscoded]
    /\ pc' = [pc EXCEPT ![f] = "repackage"]
    /\ UNCHANGED <<zip_writer, result, image_counter, pdf_at, comic_files, message, scratch,
                   image_files, wpc, channel, agg, processed_count, skipped_count, counts,
                   outputs, stats, stats_lock, overall, main_done>>

\* create_cbr_archive: File::create(output_path)?; ZipWriter::new(file).
\* On Err process_comic_file returns and temp_dir drops.
P_CreateOutput(f) ==
    /\ pc[f] = "repackage"
    /\ \E created \in BOOLEAN :
          IF created
          THEN /\ outputs' = [q \in (DOMAIN outputs) \cup {OutputPath(f)} |->
                                 IF q = OutputPath(f) THEN <<>> ELSE outputs[q]]
               /\ zip_writer' = [zip_writer EXCEPT ![f] = NewWriter]
               /\ pc' = [pc EXCEPT ![f] = "zip_files"]
               /\ UNCHANGED <<scratch, result>>
          ELSE /\ scratch' = [scratch EXCEPT ![f] = DropTempDir(@)]
               /\ pc' = [pc EXCEPT ![f] = "err"]
               /\ result' = [result EXCEPT ![f] = "Err: create_cbr_archive"]
               /\ UNCHANGED <<outputs, zip_writer>>
    /\ UNCHANGED position
    /\ UNCHANGED <<image_counter, pdf_at, comic_files, message, image_files, wpc, channel,
                   agg, processed_count, skipped_count, counts, stats, stats_lock, overall,
                   main_done>>

\* The end of the open entry, first half: the encoder is finished and what it
\* still holds of the entry's data goes to the file.  It is the first thing the
\* next start_file, finish() or the drop of the ZipWriter does.  On Err (of
\* start_file or finish) create_cbr_archive returns and the ZipWriter drops.
P_EndFlush(f) ==
    /\ pc[f] \in {"zip_files", "zip_drop"}
    /\ zip_writer[f].open
    /\ LET w == zip_writer[f]
           e == w.entries[Len(w.entries)]
           data == Whole("data", e.bytes)
       IN  /\ w.sent < data.to
           /\ \/ /\ outputs' = [outputs EXCEPT ![OutputPath(f)] =
                         WriteAt(@, w.at, [data EXCEPT !.from = w.sent + 1])]
                 /\ zip_writer' = [zip_writer EXCEPT ![f].sent = data.to,
                                                     ![f].at = w.at + (data.to - w.sent)]
                 /\ UNCHANGED pc
              \/ /\ pc[f] = "zip_files"
                 /\ pc' = [pc EXCEPT ![f] = "zip_drop"]
                 /\ UNCHANGED <<outputs, zip_writer>>
    /\ UNCHANGED <<scratch, position, result>>
    /\ UNCHANGED <<image_counter, pdf_at, comic_files, message, image_files, wpc, channel,
                   agg, processed_count, skipped_count, counts, stats, stats_lock, overall,
                   main_done>>

\* The end of the open entry, second half: the CRC and the sizes are written
\* into the entry's header (a seek to the header and back).
P_EndPatch(f) ==
    /\ pc[f] \in {"zip_files", "zip_drop"}
    /\ zip_writer[f].open
    /\ LET w == zip_writer[f]
           e == w.entries[Len(w.entries)]
       IN  /\ w.sent = PartLen([kind |-> "data", of |-> e.bytes])
           /\ \/ /\ outputs' = [outputs EXCEPT ![OutputPath(f)] =
                         WriteAt(@, e.at + 14, Whole("sizes", e.bytes))]
                 /\ zip_writer' = [zip_writer EXCEPT ![f].open = FALSE]
                 /\ UNCHANGED pc
              \/ /\ pc[f] = "zip_files"
                 /\ pc' = [pc EXCEPT ![f] = "zip_drop"]
                 /\ UNCHANGED <<outputs, zip_writer>>
    /\ UNCHANGED <<scratch, position, result>>
    /\ UNCHANGED <<image_counter, pdf_at, comic_files, message, image_files, wpc, channel,
                   agg, processed_count, skipped_count, counts, stats, stats_lock, overall,
                   main_done>>

\* create_cbr_archive: the next file of the walk (in whatever order WalkDir yields
\* them): strip_prefix(temp_dir)?; zip.start_file(..)? writes the entry's header.
P_StartFile(f) ==
    /\ pc[f] = "zip_files"
    /\ ~zip_writer[f].open
    /\ LET w == zip_writer[f]
       IN  \E p \in (DOMAIN scratch[f].files) \ {w.entries[k].path : k \in DOMAIN w.entries} :
              LET h == Whole("header", RelativeName(p))
              IN  \/ /\ outputs' = [outputs EXCEPT ![OutputPath(f)] = WriteAt(@, w.at, h)]
                     /\ zip_writer' = [zip_writer EXCEPT ![f] =
                            [w EXCEPT !.entries = Append(@, [path |-> p, bytes |-> EmptyFile,
                                                            at |-> w.at]),
                                      !.open = TRUE, !.sent = 0, !.at = w.at + h.to]]
                     /\ pc' = [pc EXCEPT ![f] = "zip_entry"]
                  \/ /\ pc' = [pc EXCEPT ![f] = "zip_drop"]
                     /\ UNCHANGED <<outputs, zip_writer>>
    /\ UNCHANGED <<scratch, position, result>>
    /\ UNCHANGED <<image_counter, pdf_at, comic_files, message, image_files, wpc, channel,
                   agg, processed_count, skipped_count, counts, stats, stats_lock, overall,
                   main_done>>

\* create_cbr_archive: fs::read(path)?; zip.write_all(&file_content)?.  The data
\* goes into the encoder; how much of its output reaches the file now depends on
\* the encoder's buffer: nothing (data shorter than the buffer) or, at most, all
\* but the end of the stream, which is written only when the entry ends.
P_WriteAll(f) ==
    /\ pc[f] = "zip_entry"
    /\ LET w == zip_writer[f]
           n == Len(w.entries)
           b == scratch[f].files[w.entries[n].path]
           data == Whole("data", b)
       IN  \/ \E k \in {0, data.to - 1} :
                 /\ outputs' = [outputs EXCEPT ![OutputPath(f)] =
                         WriteAt(@, w.at, [data EXCEPT !.to = k])]
                 /\ zip_writer' = [zip_writer EXCEPT ![f] =
                        [w EXCEPT !.entries[n].bytes = b, !.sent = k, !.at = w.at + k]]
                 /\ pc' = [pc EXCEPT ![f] = "zip_files"]
           \/ /\ pc' = [pc EXCEPT ![f] = "zip_drop"]
              /\ UNCHANGED <<outputs, zip_writer>>
    /\ UNCHANGED <<scratch, position, result>>
    /\ UNCHANGED <<image_counter, pdf_at, comic_files, message, image_files, wpc, channel,
                   agg, processed_count, skipped_count, counts, stats, stats_lock, overall,
                   main_done>>

\* create_cbr_archive: the walk is over; zip.finish()? writes the directory and
\* the end record; Ok(()); set_position(100).  On Err the ZipWriter drops.
P_Finish(f) ==
    /\ pc[f] = "zip_files"
    /\ ~zip_writer[f].open
    /\ LET w == zip_writer[f]
       IN  /\ {w.entries[k].path : k \in DOMAIN w.entries} = DOMAIN scratch[f].files
           /\ \/ /\ outputs' = [outputs EXCEPT ![OutputPath(f)] =
                         WriteAt(@, w.at, Whole("end", w.entries))]
                 /\ zip_writer' = [zip_writer EXCEPT ![f].finished = TRUE,
                                       ![f].at = w.at + Whole("end", w.entries).to]
                 /\ position' = [position EXCEPT ![f] = PosDone]
                 /\ pc' = [pc EXCEPT ![f] = "archived"]
              \/ /\ pc' = [pc EXCEPT ![f] = "zip_drop"]
                 /\ UNCHANGED <<outputs, zip_writer, position>>
    /\ UNCHANGED <<scratch, result>>
    /\ UNCHANGED <<image_counter, pdf_at, comic_files, message, image_files, wpc, channel,
                   agg, processed_count, skipped_count, counts, stats, stats_lock, overall,
                   main_done>>

\* create_cbr_archive returns an Err: the ZipWriter is dropped unfinished.  Its
\* drop ends the open entry (P_EndFlush, P_EndPatch) and writes the directory of
\* the entries started, and gives up silently at the first write that fails;
\* then the handle is gone, process_comic_file returns the Err and temp_dir drops.
P_Dropped(f) ==
    /\ pc[f] = "zip_drop"
    /\ LET w == zip_writer[f]
       IN  \/ /\ ~w.open
              /\ outputs' = [outputs EXCEPT ![OutputPath(f)] =
                      WriteAt(@, w.at, Whole("end", w.entries))]
           \/ UNCHANGED outputs
    /\ scratch' = [scratch EXCEPT ![f] = DropTempDir(@)]
    /\ pc' = [pc EXCEPT ![f] = "err"]
    /\ result' = [result EXCEPT ![f] = "Err: create_cbr_archive"]
    /\ zip_writer' = [zip_writer EXCEPT ![f] = NewWriter]
    /\ UNCHANGED position
    /\ UNCHANGED <<image_counter, pdf_at, comic_files, message, image_files, wpc, channel,
                   agg, processed_count, skipped_count, counts, stats, stats_lock, overall,
                   main_done>>

\* let compressed_size = fs::metadata(&output_path)?.len(); Ok(ProcessingStats {..}).
\* Either way process_comic_file returns and temp_dir drops.
P_Return(f) ==
    /\ pc[f] = "archived"
    /\ \E found \in BOOLEAN :
          /\ pc' = [pc EXCEPT ![f] = IF found THEN "ok" ELSE "err"]
          /\ result' = [result EXCEPT ![f] = IF found THEN "Ok" ELSE "Err: fs::metadata"]
    /\ scratch' = [scratch EXCEPT ![f] = DropTempDir(@)]
    /\ UNCHANGED <<zip_writer, image_counter, pdf_at, comic_files, position, message,
                   image_files, wpc, channel, agg, processed_count, skipped_count, counts,
                   outputs, stats, stats_lock, overall, main_done>>

(***************************************************************************)
(* main: the closure of comic_files.par_iter().for_each, for input f       *)
(***************************************************************************)
ProcessingStats(f) ==
    [images_processed |-> counts[f].processed, images_skipped |-> counts[f].skipped]

\* (a variant of the lock below that does not wait for the mutex to be free)
M_LockNoWait(f) ==
    /\ pc[f] = "ok"
    /\ stats_lock' = {f}
    /\ pc' = [pc EXCEPT ![f] = "locked"]
    /\ UNCHANGED <<zip_writer, result, image_counter, pdf_at, comic_files, position, message,
                   scratch, image_files, wpc, channel, agg, processed_count, skipped_count,
                   counts, outputs, stats, overall, main_done>>

\* Ok(file_stats) => let mut stats_map = stats.lock().unwrap()
M_Lock(f) ==
    /\ pc[f] = "ok" /\ stats_lock = {}
    /\ stats_lock' = {f}
    /\ pc' = [pc EXCEPT ![f] = "locked"]
    /\ UNCHANGED <<zip_writer, result, image_counter, pdf_at, comic_files, position, message,
                   scratch, image_files, wpc, channel, agg, processed_count, skipped_count,
                   counts, outputs, stats, overall, main_done>>

\* stats_map.insert(comic_file.path.clone(), file_stats)
M_Insert(f) ==
    /\ pc[f] = "locked"
    /\ stats' = StatsInsert(stats, comic_files[f].path, ProcessingStats(f))
    /\ pc' = [pc EXCEPT ![f] = "inserted"]
    /\ UNCHANGED <<zip_writer, result, image_counter, pdf_at, comic_files, position, message,
                   scratch, image_files, wpc, channel, agg, processed_count, skipped_count,
                   counts, outputs, stats_lock, overall, main_done>>

\* file_progress.finish_with_message("Complete") (the bar goes to its length);
\* the guard stats_map drops at the end of the arm
M_Complete(f) ==
    /\ pc[f] = "inserted"
    /\ message' = [message EXCEPT ![f] = "Complete"]
    /\ position' = [position EXCEPT ![f] = PosDone]
    /\ stats_lock' = {}
    /\ pc' = [pc EXCEPT ![f] = "inc"]
    /\ UNCHANGED <<zip_writer, result, image_counter, pdf_at, comic_files, scratch, image_files, wpc,
                   channel, agg, processed_count, skipped_count, counts, outputs, stats,
                   overall, main_done>>

\* (a variant of the Err arm below that leaves the closure before overall_progress.inc)
M_FailedAndLeave(f) ==
    /\ pc[f] = "err"
    /\ message' = [message EXCEPT ![f] = "Failed"]
    /\ position' = [position EXCEPT ![f] = PosDone]
    /\ pc' = [pc EXCEPT ![f] = "finished"]
    /\ UNCHANGED <<zip_writer, result, image_counter, pdf_at, comic_files, scratch, image_files, wpc,
                   channel, agg, processed_count, skipped_count, counts, outputs, stats,
                   stats_lock, overall, main_done>>

\* Err(e) => file_progress.finish_with_message("Failed: ..")
M_Failed(f) ==
    /\ pc[f] = "err"
    /\ message' = [message EXCEPT ![f] = "Failed"]
    /\ position' = [position EXCEPT ![f] = PosDone]
    /\ pc' = [pc EXCEPT ![f] = "inc"]
    /\ UNCHANGED <<zip_writer, result, image_counter, pdf_at, comic_files, scratch, image_files, wpc,
                   channel, agg, processed_count, skipped_count, counts, outputs, stats,
                   stats_lock, overall, main_done>>

\* overall_progress.inc(1)
M_Inc(f) ==
    /\ pc[f] = "inc"
    /\ overall' = overall + 1
    /\ pc' = [pc EXCEPT ![f] = "finished"]
    /\ UNCHANGED <<zip_writer, result, image_counter, pdf_at, comic_files, position, message,
                   scratch, image_files, wpc, channel, agg, processed_count, skipped_count,
                   counts, outputs, stats, stats_lock, main_done>>

\* par_iter has returned: overall_progress.finish, print_summary, Ok(()): the
\* process exits and takes the detached aggregator threads with it
M_Exit ==
    /\ ~main_done /\ \A f \in Files : pc[f] = "finished"
    /\ main_done' = TRUE
    /\ UNCHANGED <<zip_writer, result, image_counter, pdf_at, comic_files, pc, position, message,
                   scratch, image_files, wpc, channel, agg, processed_count, skipped_count,
                   counts, outputs, stats, stats_lock, overall>>

Next ==
    \/ \E f \in Files : P_Begin(f)
    \/ \E f \in Files : P_Extract(f)
    \/ \E f \in Files : P_StartImages(f)
    \/ \E f \in Files : \E i \in Workers(f) : W_Start(f, i)
    \/ \E f \in Files : \E i \in Workers(f) : W_Open(f, i)
    \/ \E f \in Files : \E i \in Workers(f) : W_Write(f, i)
    \/ \E f \in Files : \E i \in Workers(f) : W_Remove(f, i)
    \/ \E f \in Files : \E i \in Workers(f) : W_Send(f, i)
    \/ \E f \in Files : A_Recv(f)
    \/ \E f \in Files : A_Exit(f)
    \/ \E f \in Files : A_Count(f)
    \/ \E f \in Files : A_Publish(f)
    \/ \E f \in Files : P_Join(f)
    \/ \E f \in Files : P_ReadProcessed(f)
    \/ \E f \in Files : P_ReadSkipped(f)
    \/ \E f \in Files : P_Transcoded(f)
    \/ \E f \in Files : P_CreateOutput(f)
    \/ \E f \in Files : P_StartFile(f)
    \/ \E f \in Files : P_WriteAll(f)
    \/ \E f \in Files : P_EndFlush(f)
    \/ \E f \in Files : P_EndPatch(f)
    \/ \E f \in Files : P_Finish(f)
    \/ \E f \in Files : P_Dropped(f)
    \/ \E f \in Files : P_Return(f)
    \/ \E f \in Files : M_Lock(f)
    \/ \E f \in Files : M_Insert(f)
    \/ \E f \in Files : M_Complete(f)
    \/ \E f \in Files : M_Failed(f)
    \/ \E f \in Files : M_Inc(f)
    \/ M_Exit

Spec == Init /\ [][Next]_vars


(***************************************************************************)
(* Notions the properties use.                                             *)
(***************************************************************************)
\* what extraction of input f into an empty TempDir gives
Extracted(f) == extract_comic(comic_files[f], EmptyTree)
\* the images among extracted files, and those of them whose WebP encoding is smaller
ImagesOf(files) == {p \in DOMAIN files : IsImagePath(p)}
ShrinkingOf(files) == {p \in ImagesOf(files) :
                          Decodes(files[p]) /\ EncodeWebp(files[p]).len < files[p].len}

\* process_comic_file(f) is past extraction and has not returned
AfterExtraction == {"images", "workers", "read_processed", "read_skipped", "returned_counts",
                    "repackage", "zip_files", "zip_entry", "zip_drop", "archived"}
\* process_comic_file(f) has returned
Returned == {"err", "ok", "locked", "inserted", "inc", "finished"}
\* process_comic_file(f) returned Err
PipelineFailed(f) == pc[f] = "err" \/ message[f] = "Failed"
\* ... and the Err is that of extract_comic (line 174)
ExtractionFailed(f) == result[f] = "Err: extract_comic"

(***************************************************************************)
(* C1: when process_images returns for a non-empty list of images, the     *)
(* returned counts satisfy processed + skipped = total_images.             *)
(***************************************************************************)
C1_CountsAddUp ==
    \A f \in Files :
        (pc[f] = "returned_counts" /\ image_files[f] # <<>>)
            => counts[f].processed + counts[f].skipped = Len(image_files[f])

(***************************************************************************)
(* C2: the progress position published for a file never decreases, over    *)
(* the updates of the orchestrator and of the aggregator thread.           *)
(***************************************************************************)
C2_PositionMonotone == [][\A f \in Files : position'[f] >= position[f]]_vars

(***************************************************************************)
(* C3: an image whose WebP encoding is not strictly smaller than the       *)
(* original file keeps its original file unchanged, gets no .webp beside   *)
(* it, is reported with success = false and so is counted as skipped; an   *)
(* image is reported or counted as processed only after its smaller .webp  *)
(* was written and its original deleted.                                   *)
(***************************************************************************)
SharesWebpPath(orig, p) ==
    \E q \in (DOMAIN orig) \ {p} : WithExtension(q, "webp") = WithExtension(p, "webp")
Replaced(f, orig, p) ==
    scratch[f].exists =>
        /\ p \notin DOMAIN scratch[f].files
        /\ WithExtension(p, "webp") \in DOMAIN scratch[f].files
        /\ scratch[f].files[WithExtension(p, "webp")] = EncodeWebp(orig[p])
C3_NeverEnlarges ==
    \A f \in Files : pc[f] \in AfterExtraction \cup Returned =>
        LET orig == Extracted(f).tree.files
            shrinking == ShrinkingOf(orig)
            notShrinking == ImagesOf(orig) \ shrinking
        IN  /\ \A p \in notShrinking : (pc[f] \in AfterExtraction) =>
                  /\ p \in DOMAIN scratch[f].files
                  /\ scratch[f].files[p] = orig[p]
                  /\ SharesWebpPath(orig, p) \/ WithExtension(p, "webp") \notin DOMAIN scratch[f].files
            /\ \A i \in Workers(f) : wpc[f][i] = "send_ok" =>
                  ImagePath(f, i) \in shrinking /\ Replaced(f, orig, ImagePath(f, i))
            /\ \A k \in DOMAIN channel[f].buf : channel[f].buf[k][2] =>
                  channel[f].buf[k][1] \in shrinking /\ Replaced(f, orig, channel[f].buf[k][1])
            /\ agg[f].success => shrinking # {}
            /\ processed_count[f] <= Cardinality({i \in Workers(f) :
                                         wpc[f][i] = "done" /\ ImagePath(f, i) \in shrinking})
            /\ agg[f].at = "exited" => skipped_count[f] >= Cardinality(notShrinking)
C3_Witness ==
    \E f \in Files :
        /\ agg[f].at = "exited" /\ pc[f] = "repackage"
        /\ \E p \in ImagesOf(Extracted(f).tree.files) \ ShrinkingOf(Extracted(f).tree.files) :
              Decodes(Extracted(f).tree.files[p])
        /\ processed_count[f] = 1 /\ skipped_count[f] = 1

(***************************************************************************)
(* C4: after a failed pipeline (repackaging is the only stage that makes   *)
(* the output) no archive exists at the output path.                       *)
(***************************************************************************)
C4_NoOutputAfterFailure ==
    \A f \in Files : PipelineFailed(f) => OutputPath(f) \notin DOMAIN outputs

(***************************************************************************)
(* C5: a PDF from which no image file was extracted fails in extraction:   *)
(* its pipeline never gets past extraction, ends as failed, and makes no   *)
(* output archive.                                                         *)
(***************************************************************************)
PdfWroteNoImage(f) ==
    /\ comic_files[f].file_type = "Pdf" /\ comic_files[f].pdf.loads
    /\ DOMAIN ExtractPagesFrom(comic_files[f].pdf.pages, 1, PdfState(TRUE, EmptyTree, 1)).tree.files = {}
C5_ZeroImagePdfFails ==
    \A f \in Files : PdfWroteNoImage(f) =>
        /\ pc[f] \notin AfterExtraction
        /\ pc[f] \in Returned => PipelineFailed(f)
        /\ OutputPath(f) \notin DOMAIN outputs

(***************************************************************************)
(* C6: for a .cbr file whose bytes are a zip archive (and on which the RAR *)
(* attempt fails), extract_comic succeeds and leaves in the TempDir        *)
(* exactly the files direct zip extraction gives.                          *)
(***************************************************************************)
DirectZip(f) == extract_zip_archive(comic_files[f].zip, EmptyTree)
CbrReallyZip(f) ==
    /\ comic_files[f].file_type = "Cbr"
    /\ DirectZip(f).ok
    /\ ~extract_rar_archive(comic_files[f].rar, EmptyTree).ok
C6_FallbackSameFiles ==
    \A f \in Files : CbrReallyZip(f) =>
        /\ pc[f] = "images" => scratch[f].files = DirectZip(f).tree.files
        /\ ~ExtractionFailed(f)

(***************************************************************************)
(* C8: the TempDir of a pipeline is gone once process_comic_file has       *)
(* returned, on every exit path, and is present from extraction until      *)
(* repackaging is over.                                                    *)
(***************************************************************************)
C8_ScratchScoped ==
    \A f \in Files :
        /\ pc[f] \in Returned => ~scratch[f].exists
        /\ pc[f] \in AfterExtraction \cup {"extract"} => scratch[f].exists
\* the last exit: the archive is written, fs::metadata(&output_path)? returns Err
C8_Witness ==
    \E f \in Files :
        /\ pc[f] = "err" /\ ~scratch[f].exists
        /\ position[f] = PosDone /\ message[f] = ""
        /\ result[f] = "Err: fs::metadata" /\ ArchiveComplete(outputs[OutputPath(f)])


(***************************************************************************)
(* The batch: main over several input files at once.  The input paths are  *)
(* distinct (WalkDir yields each file once); par_iter treats the files     *)
(* alike, so the model takes them in path order.                           *)
(***************************************************************************)
BatchInputs ==
    { ComicFile(P(<<>>, "a", "cbz"), [valid |-> TRUE, entries |-> <<E_notes>>], NoRar, NoPdf),
      ComicFile(P(<<>>, "a", "cbz"), [valid |-> TRUE, entries |-> <<E_001png>>], NoRar, NoPdf),
      ComicFile(P(<<>>, "a", "cbz"), NoZip, NoRar, NoPdf),
      ComicFile(P(<<>>, "a", "pdf"), NoZip, NoRar, PdfDoc(<<O_fax>>, 1)),
      ComicFile(P(<<>>, "b", "cbr"), NoZip, NoRar, NoPdf),
      ComicFile(P(<<>>, "b", "cbr"), [valid |-> TRUE, entries |-> <<E_notes>>], NoRar, NoPdf) }

\* A file that holds images stands beside files that fail in extraction; the files
\* that are repackaged side by side, on one output path or on two, hold none.
InitBatch ==
    \E cfs \in [1..BatchFiles -> BatchInputs] :
        /\ \A i, j \in 1..BatchFiles : i < j => PathLess(cfs[i].path, cfs[j].path)
        /\ \A i, j \in 1..BatchFiles :
              (i # j /\ find_image_files(extract_comic(cfs[i], EmptyTree).tree) # <<>>)
                  => ~extract_comic(cfs[j], EmptyTree).ok
        /\ InitFor(cfs)

\* every thread that can take a step eventually takes one: no thread of the
\* program waits for anything but another thread's progress
SpecBatch == InitBatch /\ [][Next]_vars /\ WF_vars(Next)

\* the closure of f has inserted its entry into the map
Inserted(f) == pc[f] = "inserted" \/ (pc[f] \in {"inc", "finished"} /\ message[f] = "Complete")

(***************************************************************************)
(* C7: in a batch a failing pipeline stops only itself.  A step in which   *)
(* the pipeline of one file fails, at whatever stage (TempDir, extraction, *)
(* repackaging, the size of the output), changes nothing of a sibling's    *)
(* pipeline and counts nothing; a failed pipeline goes on to "Failed" and  *)
(* to nothing else, a pipeline that returned Ok to "Complete" and to       *)
(* nothing else, and neither indicator is ever taken back; the overall     *)
(* count goes up by one, exactly when one file's closure ends, so that it  *)
(* is the number of finished files; and every file's closure does end, the *)
(* batch finishing with the count equal to the number of input files.      *)
(***************************************************************************)
C7_BatchIsolation ==
    /\ [][LET \* the pipeline of f returns an Err in this step
               FailsNow(f) == pc[f] # "err" /\ pc'[f] = "err"
               \* nothing of the pipeline of g changes in this step
               Untouched(g) ==
                   /\ pc'[g] = pc[g] /\ position'[g] = position[g] /\ message'[g] = message[g]
                   /\ scratch'[g] = scratch[g] /\ image_files'[g] = image_files[g]
                   /\ wpc'[g] = wpc[g] /\ channel'[g] = channel[g] /\ agg'[g] = agg[g]
                   /\ counts'[g] = counts[g] /\ zip_writer'[g] = zip_writer[g]
               \* process_comic_file has returned Ok and the closure is in its Ok arm
               ReturnedOk == {"ok", "locked", "inserted"}
           IN  /\ \A f \in Files :
                     /\ FailsNow(f) =>
                           /\ \A g \in Files \ {f} : Untouched(g)
                           /\ overall' = overall /\ stats' = stats /\ stats_lock' = stats_lock
                     /\ pc[f] = "err" =>
                           \/ pc'[f] = "err" /\ message'[f] = message[f]
                           \/ pc'[f] = "inc" /\ message'[f] = "Failed"
                     /\ pc[f] \in ReturnedOk =>
                           \/ pc'[f] \in ReturnedOk /\ message'[f] = message[f]
                           \/ pc'[f] = "inc" /\ message'[f] = "Complete"
                     /\ pc'[f] \in ReturnedOk => pc[f] \in ReturnedOk \cup {"archived"}
                     /\ pc'[f] = "inc" => pc[f] \in {"err", "inserted", "inc"}
                     /\ message[f] # "" => message'[f] = message[f]
               /\ \/ /\ overall' = overall
                     /\ \A f \in Files : (pc'[f] = "finished") = (pc[f] = "finished")
                  \/ /\ overall' = overall + 1
                     /\ \E f \in Files :
                           /\ pc[f] = "inc" /\ pc'[f] = "finished"
                           /\ \A g \in Files \ {f} :
                                 (pc'[g] = "finished") = (pc[g] = "finished")]_vars
    /\ [](\A f \in Files :
            /\ pc[f] \in {"inc", "finished"} => message[f] \in {"Complete", "Failed"}
            /\ pc[f] \notin {"inc", "finished"} => message[f] = "")
    /\ [](overall = Cardinality({f \in Files : pc[f] = "finished"}))
    /\ <>(main_done /\ overall = Len(comic_files) /\ \A f \in Files : pc[f] = "finished")
\* the batch is over and counted; f failed in repackaging, its sibling g is "Complete"
C7_Witness ==
    /\ main_done /\ overall = Len(comic_files)
    /\ \E f, g \in Files :
          /\ message[f] = "Failed" /\ result[f] = "Err: create_cbr_archive"
          /\ OutputPath(f) \in DOMAIN outputs
          /\ message[g] = "Complete"

(***************************************************************************)
(* C9 as claimed: the map is written only under the mutex, and after the   *)
(* batch it holds one entry for every input file's pipeline.               *)
(***************************************************************************)
C9_EntryForEveryFile ==
    /\ \A f \in Files : pc[f] \in {"locked", "inserted"} => stats_lock = {f}
    /\ main_done => DOMAIN stats = {comic_files[f].path : f \in Files}

(***************************************************************************)
(* C9 as amended: the map changes only in a step of the closure that holds *)
(* the mutex, which adds an entry under that closure's own input path and  *)
(* leaves every other entry alone; at any time the map holds exactly the   *)
(* entries of the pipelines that returned Ok and passed their insert, each *)
(* with that pipeline's own counts, so after the batch it holds one entry  *)
(* per successful pipeline and none for a failed one.                      *)
(***************************************************************************)
C9_OneEntryPerSuccess ==
    /\ [](/\ \A f \in Files : pc[f] \in {"locked", "inserted"} => stats_lock = {f}
          /\ DOMAIN stats = {comic_files[f].path : f \in {g \in Files : Inserted(g)}}
          /\ \A f \in Files : Inserted(f) => stats[comic_files[f].path] = ProcessingStats(f)
          /\ \A f \in Files : PipelineFailed(f) => comic_files[f].path \notin DOMAIN stats)
    /\ [][stats' # stats =>
            \E f \in Files :
                /\ stats_lock = {f} /\ stats_lock' = {f}
                /\ pc[f] = "locked" /\ pc'[f] = "inserted"
                /\ comic_files[f].path \notin DOMAIN stats
                /\ DOMAIN stats' = (DOMAIN stats) \cup {comic_files[f].path}
                /\ \A k \in DOMAIN stats : stats'[k] = stats[k]]_vars
C9_Witness ==
    /\ main_done
    /\ \E f, g \in Files : f # g /\ message[f] = "Complete" /\ message[g] = "Complete"
    /\ Cardinality(DOMAIN stats) = Len(comic_files)


(***************************************************************************)
(* Round trip of the generic-archive strategy: extract_zip_archive into an *)
(* empty TempDir, then create_cbr_archive of the untouched directory.      *)
(***************************************************************************)
InitRoundTrip == \E cf \in CbzInputs : InitFor(<<cf>>)

\* extract_zip_archive(&comic_file.path, temp_dir) on a fresh TempDir
RT_Extract(f) ==
    /\ pc[f] = "begin"
    /\ LET r == extract_zip_archive(comic_files[f].zip, EmptyTree)
       IN  /\ scratch' = [scratch EXCEPT ![f] = r.tree]
           /\ pc' = [pc EXCEPT ![f] = IF r.ok THEN "repackage" ELSE "rt_failed"]
    /\ UNCHANGED <<zip_writer, result, image_counter, pdf_at, comic_files, position, message,
                   image_files, wpc, channel, agg, processed_count, skipped_count, counts,
                   outputs, stats, stats_lock, overall, main_done>>

NextRoundTrip ==
    \/ \E f \in Files : RT_Extract(f)
    \/ \E f \in Files : P_CreateOutput(f)
    \/ \E f \in Files : P_StartFile(f)
    \/ \E f \in Files : P_WriteAll(f)
    \/ \E f \in Files : P_EndFlush(f)
    \/ \E f \in Files : P_EndPatch(f)
    \/ \E f \in Files : P_Finish(f)
    \/ \E f \in Files : P_Dropped(f)

SpecRoundTrip == InitRoundTrip /\ [][NextRoundTrip]_vars

\* the entries of a zip as a set of name and bytes
EntrySet(zip) == {[name |-> zip.entries[k].name, bytes |-> zip.entries[k].bytes] : k \in DOMAIN zip.entries}
\* a readable zip archive whose entries have distinct names
WellFormedZip(zip) ==
    /\ zip.valid
    /\ \A k \in DOMAIN zip.entries : zip.entries[k].readable /\ CopyOk(zip.entries[k])
    /\ \A j, k \in DOMAIN zip.entries : j # k => zip.entries[j].name # zip.entries[k].name

(***************************************************************************)
(* C10: for every well-formed zip container, with entries in               *)
(* subdirectories and explicit directory entries among them, extracting    *)
(* and then repackaging succeeds and gives an archive with the names and   *)
(* bytes of the original's entries.                                        *)
(***************************************************************************)
C10_RoundTrip ==
    \A f \in Files : WellFormedZip(comic_files[f].zip) =>
        /\ pc[f] # "rt_failed"
        /\ pc[f] = "archived" =>
              /\ OutputPath(f) \in DOMAIN outputs
              /\ ArchiveComplete(outputs[OutputPath(f)])
              /\ ArchiveEntries(outputs[OutputPath(f)]) = EntrySet(comic_files[f].zip)


(***************************************************************************)
(* PDF extraction step by step: extract_pdf_archive into a fresh TempDir,  *)
(* one XObject of one page at a time, with the local image_counter in the  *)
(* state.                                                                  *)
(***************************************************************************)
\* documents of two pages with the XObjects split between them in every way
PdfSplitViews ==
    {NoPdf} \cup {PdfDoc(os, k) : <<os, k>> \in
                     {<<os, k>> \in SeqsUpTo(XObjects, MaxObjects) \X (0..MaxObjects) : k <= Len(os)}}
PdfSplitInputs == {ComicFile(P(<<>>, "a", "pdf"), NoZip, NoRar, d) : d \in PdfSplitViews}

InitPdf == \E cf \in PdfSplitInputs : InitFor(<<cf>>)

PdfPages(f) == comic_files[f].pdf.pages
PdfUnchanged ==
    UNCHANGED <<comic_files, position, message, image_files, wpc, channel, agg, processed_count,
                skipped_count, counts, outputs, stats, stats_lock, overall, main_done, zip_writer,
                result>>

\* Document::load(pdf_path)?; let mut image_counter = 1; doc.get_pages()
PDF_Load(f) ==
    /\ pc[f] = "begin"
    /\ scratch' = [scratch EXCEPT ![f] = EmptyTree]
    /\ image_counter' = [image_counter EXCEPT ![f] = 1]
    /\ pdf_at' = [pdf_at EXCEPT ![f] = [page |-> 1, obj |-> 1]]
    /\ pc' = [pc EXCEPT ![f] = IF comic_files[f].pdf.loads THEN "pdf_pages" ELSE "pdf_failed"]
    /\ PdfUnchanged

\* one iteration of `for (name, obj_ref) in xobject` in extract_images_from_page
PDF_XObject(f) ==
    /\ pc[f] = "pdf_pages"
    /\ pdf_at[f].page <= Len(PdfPages(f))
    /\ pdf_at[f].obj <= Len(PdfPages(f)[pdf_at[f].page])
    /\ LET o == PdfPages(f)[pdf_at[f].page][pdf_at[f].obj]
           r == extract_image_from_stream(o, scratch[f], image_counter[f])
       IN  IF o.subtype # "Image"
           THEN /\ pdf_at' = [pdf_at EXCEPT ![f].obj = @ + 1]
                /\ UNCHANGED <<scratch, image_counter, pc>>
           ELSE IF ~r.ok
           THEN /\ scratch' = [scratch EXCEPT ![f] = r.tree]
                /\ pc' = [pc EXCEPT ![f] = "pdf_failed"]
                /\ UNCHANGED <<image_counter, pdf_at>>
           ELSE /\ scratch' = [scratch EXCEPT ![f] = r.tree]
                /\ image_counter' = [image_counter EXCEPT ![f] = NextImageNumber(@)]
                /\ pdf_at' = [pdf_at EXCEPT ![f].obj = @ + 1]
                /\ UNCHANGED pc
    /\ PdfUnchanged

\* extract_images_from_page returns Ok(()); the next page of `for (_, id) in pages`
PDF_NextPage(f) ==
    /\ pc[f] = "pdf_pages"
    /\ pdf_at[f].page <= Len(PdfPages(f))
    /\ pdf_at[f].obj > Len(PdfPages(f)[pdf_at[f].page])
    /\ pdf_at' = [pdf_at EXCEPT ![f] = [page |-> @.page + 1, obj |-> 1]]
    /\ UNCHANGED <<scratch, image_counter, pc>>
    /\ PdfUnchanged

\* if image_counter == 1 { bail!(..) }; Ok(())
PDF_Finish(f) ==
    /\ pc[f] = "pdf_pages"
    /\ pdf_at[f].page > Len(PdfPages(f))
    /\ pc' = [pc EXCEPT ![f] = IF NoImagesFound(image_counter[f]) THEN "pdf_failed" ELSE "pdf_done"]
    /\ UNCHANGED <<scratch, image_counter, pdf_at>>
    /\ PdfUnchanged

NextPdf ==
    \/ \E f \in Files : PDF_Load(f)
    \/ \E f \in Files : PDF_XObject(f)
    \/ \E f \in Files : PDF_NextPage(f)
    \/ \E f \in Files : PDF_Finish(f)

SpecPdf == InitPdf /\ [][NextPdf]_vars

RECURSIVE ConcatPages(_, _)
\* the XObjects of the first k pages, in iteration order
ConcatPages(pages, k) == IF k = 0 THEN <<>> ELSE ConcatPages(pages, k - 1) \o pages[k]
\* if subtype == b"Image"
IsImageXObject(o) == o.subtype = "Image"
\* the image XObjects extract_image_from_stream has returned Ok for, in order
AttemptedImages(f) ==
    LET at == pdf_at[f]
        whole == ConcatPages(PdfPages(f), at.page - 1)
        part == IF at.page <= Len(PdfPages(f))
                THEN SubSeq(PdfPages(f)[at.page], 1, at.obj - 1) ELSE <<>>
    IN  SelectSeq(whole \o part, IsImageXObject)
\* the extension of the file an image XObject is written to, "" when it is skipped
WrittenAs(o) ==
    CASE o.filter = "DCTDecode" -> "jpg"
      [] o.filter = "FlateDecode" /\ o.bpc = 8 /\ o.cs \in {"DeviceRGB", "DeviceGray", "DeviceCMYK"} -> "png"
      [] o.filter = "" /\ o.bpc = 8 /\ o.cs \in {"DeviceRGB", "DeviceGray"} -> "png"
      [] OTHER -> ""
\* the bytes of that file
WrittenBytes(o) == IF o.filter = "DCTDecode" THEN o.bytes ELSE SavePng(o.bytes)

(***************************************************************************)
(* C11: in PDF extraction one image counter, starting at 1, is shared by   *)
(* all pages and all image XObjects and goes up by one for every image     *)
(* XObject gone through, written or skipped: the counter is one more than  *)
(* the number of image XObjects gone through, the files in the TempDir are *)
(* exactly those of the written ones, each named page_NNNN with the        *)
(* ordinal of its XObject among all image XObjects gone through, a skipped *)
(* XObject left no file, and no two files share a number.                  *)
(***************************************************************************)
C11_SharedImageCounter ==
    \A f \in Files : pc[f] \in {"pdf_pages", "pdf_done", "pdf_failed"} =>
        LET imgs == AttemptedImages(f)
            written == {i \in DOMAIN imgs : WrittenAs(imgs[i]) # ""}
            files == scratch[f].files
        IN  /\ image_counter[f] = 1 + Len(imgs)
            /\ DOMAIN files = {PageName(i, WrittenAs(imgs[i])) : i \in written}
            /\ \A i \in written : files[PageName(i, WrittenAs(imgs[i]))] = WrittenBytes(imgs[i])
            /\ \A p, q \in DOMAIN files : p # q => p.stem # q.stem
            /\ Cardinality(DOMAIN files) = Cardinality(written)
C11_Witness ==
    \E f \in Files :
        /\ pc[f] = "pdf_done" /\ image_counter[f] = 3
        /\ Len(PdfPages(f)[1]) = 1 /\ WrittenAs(PdfPages(f)[1][1]) = ""
        /\ IsImageXObject(PdfPages(f)[1][1])
        /\ DOMAIN scratch[f].files = {PageName(2, "jpg")}

\* create_cbr_archive(temp_dir, &output_path) of input f has returned Ok
Repackaged(f) == zip_writer[f].finished

(***************************************************************************)
(* C12: no two pipelines of a batch write the same output archive: the     *)
(* pipelines of two distinct input files that have both written their      *)
(* archive have written it to distinct paths (generate_output_path gives   *)
(* distinct input files distinct paths).                                   *)
(***************************************************************************)
C12_DistinctOutputPaths ==
    \A f, g \in Files :
        (f # g /\ Repackaged(f) /\ Repackaged(g)) => OutputPath(f) # OutputPath(g)

(***************************************************************************)
(* Pages that share a stem: the pipeline for one .cbz whose entries are    *)
(* drawn from 001.png, 001.jpg (both with a smaller WebP encoding) and an  *)
(* undecodable 002.jpg.                                                    *)
(***************************************************************************)
ImgShrinksToo == Bytes("D", "img", 3, 1)   \* another image whose WebP encoding is smaller
E_001jpg == Entry(ZN(<<>>, "001", "jpg", FALSE), ImgShrinksToo, TRUE)
PageEntries == {E_001png, E_001jpg, E_002jpg}
PageInputs ==
    {ComicFile(P(<<>>, "a", "cbz"), [valid |-> TRUE, entries |-> es], NoRar, NoPdf) :
        es \in SeqsUpTo(PageEntries, MaxEntries)}

InitPages == \E cf \in PageInputs : InitFor(<<cf>>)
SpecPages == InitPages /\ [][Next]_vars

\* process_images(f) has returned and the TempDir is still there
AfterTranscoding == {"read_processed", "read_skipped", "returned_counts", "repackage",
                     "zip_files", "zip_entry", "zip_drop", "archived"}

(***************************************************************************)
(* C13: transcoding never loses a page: once the workers of process_images *)
(* are through, every image file that extraction put into the TempDir is   *)
(* still there as a file of its own, either the original with its bytes or *)
(* the .webp beside it holding that image's encoding, and the TempDir      *)
(* holds no fewer files than before transcoding.                           *)
(***************************************************************************)
C13_NoPageLost ==
    \A f \in Files : pc[f] \in AfterTranscoding =>
        LET orig == Extracted(f).tree.files
            files == scratch[f].files
        IN  /\ \A p \in ImagesOf(orig) :
                  \/ p \in DOMAIN files /\ files[p] = orig[p]
                  \/ /\ WithExtension(p, "webp") \in DOMAIN files
                     /\ files[WithExtension(p, "webp")] = EncodeWebp(orig[p])
            /\ Cardinality(DOMAIN files) >= Cardinality(DOMAIN orig)

=============================================================================
